---- MODULE Spec2Model ----
(***************************************************************************)
(* Task Vision backend (backend/server.py): the role-filtered task update  *)
(* pipeline, the task reads and deletion, the activity / notification      *)
(* helpers, the Socket.IO presence map and the chat messages sent over a   *)
(* socket.  Every HTTP handler and socket event handler is one action;     *)
(* register is cut at the await between its email lookup and its insert,   *)
(* and update_task, delete_task, connect, disconnect and send_message are  *)
(* also served cut at their awaits, for the runs in which calls overlap.   *)
(* The MongoDB collections are the variables users, tasks, activities,     *)
(* notifications and messages; connected_users is the process-wide         *)
(* presence dict; registering, updating, deleting and handling hold the    *)
(* register, update_task, delete_task and socket handler calls suspended   *)
(* at an await; mix is the set of operations the clients of the run call.  *)
(***************************************************************************)
EXTENDS Integers, Sequences, FiniteSets, TLC

VARIABLES users, tasks, activities, notifications, connected_users,
          sio_sids, emitted, now, uuid, last, registering, updating,
          handling, deleting, messages, mix

vars == <<users, tasks, activities, notifications, connected_users,
          sio_sids, emitted, now, uuid, last, registering, updating,
          handling, deleting, messages, mix>>

(* ------------------------------ bounds --------------------------------- *)
MaxUsers == 3        \* identities that can ever be registered
MaxTasks == 2        \* task ids that can ever be generated
MaxSids == 2         \* socket handles the transport hands out
MaxClock == 3        \* last value of the clock; it starts at 1
CrowdAdmins == 11    \* admins stored in the crowded deployment
MaxPending == 2      \* register requests suspended between check and insert
MaxOverlap == 2      \* update_task calls suspended at an await
MaxHandlers == 2     \* connect / disconnect handlers suspended at an await
MaxDeleting == 2     \* delete_task calls suspended at an await
MaxMessages == 2     \* chat messages a run stores
MaxPresenceClock == 4  \* last value of the clock where those handlers overlap

(* --------------------------- value domains ----------------------------- *)
NoneN == 0                   \* Python None in an id / number / time field
NoneS == "None"              \* Python None in a string / enum field
UnsetN == -1                 \* field not present in the request body
UnsetS == "unset"

ADMIN == "admin"
EMPLOYEE == "employee"
UserRole == {ADMIN, EMPLOYEE}

NOT_STARTED == "not_started"
IN_PROGRESS == "in_progress"
PAUSED == "paused"
COMPLETED == "completed"
TaskStatus == {NOT_STARTED, IN_PROGRESS, PAUSED, COMPLETED}

TaskPriority == {"high", "medium", "low"}

UserIds == 1..MaxUsers
TaskIds == 1..MaxTasks
Sids == 1..MaxSids

(* ------------------------------ tokens --------------------------------- *)
\* A bearer token as jwt.decode sees it: its user_id claim (NoneN when the
\* claim is missing) and whether the signature verifies and exp has passed.
\* Removed is the id of an identity whose document was taken out of db.users
\* (by hand: no handler deletes one) after its token was issued; no register
\* ever generates that id again.
Removed == MaxUsers + CrowdAdmins
TokenSubjects == (0..MaxUsers) \cup {Removed}
Tokens == {[user_id |-> u, sig |-> "ok", exp |-> "live"] : u \in TokenSubjects}
          \cup {[user_id |-> 1, sig |-> "bad", exp |-> "live"],
                [user_id |-> 1, sig |-> "ok", exp |-> "expired"]}

\* create_jwt_token runs only in register and login, for a stored identity:
\* a token naming an id of UserIds exists once that id has been generated.
Issued(tok) == tok.user_id \in UserIds => tok.user_id \in DOMAIN users

\* A request without an Authorization header; HTTPBearer turns it down
\* before the handler runs, with 403 or 401 depending on the FastAPI release.
NoCredentials == [user_id |-> NoneN, sig |-> "none", exp |-> "live"]
BearerRejects == {401, 403}
Credentials == Tokens \cup {NoCredentials}

\* Faulty variant: exp is not verified.
jwt_decode_ok_noexp(tok) == tok.sig = "ok"

\* jwt.decode: the payload, or an InvalidTokenError (ExpiredSignatureError is
\* a subclass of it).
jwt_decode_ok(tok) == tok.sig = "ok" /\ tok.exp = "live"

\* get_current_user: the caller's id, or NoneN when it raises 401.
get_current_user(tok) ==
    IF ~jwt_decode_ok(tok) THEN NoneN
    ELSE IF tok.user_id = NoneN THEN NoneN
    ELSE IF tok.user_id \notin DOMAIN users THEN NoneN
    ELSE tok.user_id

(* ----------------------------- requests -------------------------------- *)
TaskUpdateFields == {"title", "description", "priority", "status",
                     "assigned_to", "due_date", "estimated_hours", "actual_hours"}

Unset(f) == IF f \in {"title", "description", "priority", "status"}
            THEN UnsetS ELSE UnsetN

\* task_update.dict(exclude_unset=True).keys()
SetFields(r) == {f \in TaskUpdateFields : r[f] # Unset(f)}

EmptyUpdate == [title |-> UnsetS, description |-> UnsetS, priority |-> UnsetS,
                status |-> UnsetS, assigned_to |-> UnsetN, due_date |-> UnsetN,
                estimated_hours |-> UnsetN, actual_hours |-> UnsetN]

\* A body that sets every field but status.
FullUpdate == [title |-> "t2", description |-> "d2", priority |-> "low",
               status |-> UnsetS, assigned_to |-> MaxUsers, due_date |-> 2,
               estimated_hours |-> 2, actual_hours |-> 2]

\* status is Optional[TaskStatus]: an explicit JSON null is a body that sets
\* status to None.
StatusInputs == TaskStatus \cup {NoneS}

\* The TaskUpdate bodies the clients send: nothing, one of four single
\* fields, or every field at once.
TaskUpdate ==
    {EmptyUpdate,
     [EmptyUpdate EXCEPT !.title = "t2"],
     [EmptyUpdate EXCEPT !.actual_hours = 2],
     [EmptyUpdate EXCEPT !.assigned_to = MaxUsers]}
    \cup {[EmptyUpdate EXCEPT !.status = s] : s \in StatusInputs}
    \cup {[FullUpdate EXCEPT !.status = s] : s \in StatusInputs}

\* TaskCreate bodies.
TaskCreate ==
    [title : {"t1"},
     description : {"d1"},
     priority : {"high"},
     assigned_to : UserIds \cup {NoneN},
     due_date : {1},
     estimated_hours : {1}]

AnyTaskCreate == CHOOSE b \in TaskCreate : TRUE

(* ------------------------------ helpers -------------------------------- *)
Event(name, kind, room, ref) == [event |-> name, kind |-> kind, room |-> room, ref |-> ref]

\* What the last handler answered; result is the set of tasks in the body of
\* a read.
Response(op, code, user, task_id, sid, req) ==
    [op |-> op, code |-> code, user |-> user, task_id |-> task_id,
     sid |-> sid, req |-> req, result |-> {}]

\* create_activity: the record inserted into db.activities.
Activity(user_id, action, task_id) ==
    [user_id |-> user_id, action |-> action, task_id |-> task_id]

\* create_activity: the activity_created event, emitted to everyone.
ActivityEvent(n) == Event("activity_created", "all", 0, n)

\* create_notification: the record inserted into db.notifications.
Notification(user_id, title, task_id) ==
    [user_id |-> user_id, title |-> title, task_id |-> task_id, is_read |-> FALSE]

\* connected_users.get(user_id) on the presence dict cu.
user_session(cu, user_id) ==
    IF user_id \in DOMAIN cu THEN cu[user_id] ELSE NoneN

\* Faulty variant: without a session the emit goes out with room=None, which
\* Socket.IO sends to everyone.
NotificationEvents_unchecked(user_id, n) ==
    LET session == user_session(connected_users, user_id) IN
    IF session # NoneN
    THEN <<Event("notification", "sid", session, n)>>
    ELSE <<Event("notification", "all", 0, n)>>

\* create_notification: the live event, emitted only when connected_users has
\* a session for the recipient.
NotificationEvents(user_id, n) ==
    LET session == user_session(connected_users, user_id) IN
    IF session # NoneN
    THEN <<Event("notification", "sid", session, n)>>
    ELSE <<>>

(* ---------------------------- identity store --------------------------- *)
User(email, role) ==
    [email |-> email, role |-> role, is_online |-> FALSE, last_seen |-> NoneN]

RECURSIVE Ascending(_)
\* The ids of S in insertion (= ascending id) order, as find() returns them.
Ascending(S) ==
    IF S = {} THEN <<>>
    ELSE LET m == CHOOSE x \in S : \A y \in S : x <= y
         IN <<m>> \o Ascending(S \ {m})

\* cursor.to_list(n): at most the first n documents.
to_list(seq, n) == IF Len(seq) <= n THEN seq ELSE SubSeq(seq, 1, n)

AdminListLimit == 10

Admins == {u \in DOMAIN users : users[u].role = ADMIN}

\* db.users.find({"role": ADMIN}).to_list(10)
admin_users == to_list(Ascending(Admins), AdminListLimit)

\* Faulty variant: the title slips into the employee's writable set.
allowed_fields_wide == {"status", "actual_hours", "title"}

allowed_fields == {"status", "actual_hours"}

\* update_task: the dict handed to $set, before the stamps are added.
update_data(role, req) ==
    IF role = EMPLOYEE
    THEN [f \in TaskUpdateFields |->
             IF f \in allowed_fields THEN req[f] ELSE Unset(f)]
    ELSE [f \in TaskUpdateFields |-> req[f]]

\* Faulty variant: the test on the stored status is inverted.
HandleCompletion_inverted(upd, task_data) ==
    upd.status = COMPLETED /\ task_data.status = COMPLETED

\* update_task: does the completion branch stamp completed_at?
HandleCompletion(upd, task_data) ==
    upd.status = COMPLETED /\ task_data.status # COMPLETED

\* Faulty variant: a reassignment also rewrites the owner.
Owner_reassigned(task_data, upd) ==
    IF upd.assigned_to # UnsetN THEN upd.assigned_to ELSE task_data.assigned_by

\* TaskUpdate has no assigned_by (and no id) field, so $set never names it.
Owner(task_data, upd) == task_data.assigned_by

\* Faulty variant: a status other than completed takes the stamp away.
CompletedAt_cleared(upd, task_data, stored, t) ==
    IF HandleCompletion(upd, task_data) THEN t
    ELSE IF upd.status # UnsetS THEN NoneN ELSE stored

\* update_task: completed_at after $set.  The completion branch is the only
\* place that puts completed_at into update_data; otherwise $set does not
\* name the field and the stored value stays.
CompletedAt(upd, task_data, stored, t) ==
    IF HandleCompletion(upd, task_data) THEN t ELSE stored

\* db.tasks.update_one({"id": task_id}, {"$set": update_data})
ApplySet(task_data, upd, t) ==
    [id |-> task_data.id,
     title |-> IF upd.title # UnsetS THEN upd.title ELSE task_data.title,
     description |-> IF upd.description # UnsetS THEN upd.description
                     ELSE task_data.description,
     priority |-> IF upd.priority # UnsetS THEN upd.priority ELSE task_data.priority,
     status |-> IF upd.status # UnsetS THEN upd.status ELSE task_data.status,
     assigned_to |-> IF upd.assigned_to # UnsetN THEN upd.assigned_to
                     ELSE task_data.assigned_to,
     assigned_by |-> Owner(task_data, upd),
     created_at |-> task_data.created_at,
     due_date |-> IF upd.due_date # UnsetN THEN upd.due_date ELSE task_data.due_date,
     completed_at |-> CompletedAt(upd, task_data, task_data.completed_at, t),
     estimated_hours |-> IF upd.estimated_hours # UnsetN THEN upd.estimated_hours
                         ELSE task_data.estimated_hours,
     actual_hours |-> IF upd.actual_hours # UnsetN THEN upd.actual_hours
                      ELSE task_data.actual_hours,
     updated_at |-> t]

\* update_task: 'status' in update_data and old_status != new_status
StatusChanged(upd, task_data) ==
    upd.status # UnsetS /\ task_data.status # upd.status

\* update_task: building the activity description calls .replace() on both
\* statuses; None has no such method, so the handler dies there.
DescriptionRaises(upd, task_data) ==
    task_data.status = NoneS \/ upd.status = NoneS

\* Task(**updated_task_data): status is not Optional in Task.
TaskModelRaises(task) == task.status = NoneS

(* ------------------------------ workloads ------------------------------ *)
\* The operations the clients of one run call.  A run serves one of these
\* mixes from start to end; the mixes together cover every handler.
TaskMix == {"create_task", "update_task", "connect", "disconnect"}
IdentityMix == {"register", "update_task"}
ReadMix == {"create_task", "update_task", "delete_task", "get_tasks", "get_task"}
InboxMix == {"create_task", "update_task", "mark_notification_read"}
OverlapMix == {"update_task.await", "delete_task"}
PresenceMix == {"connect.await", "disconnect.await", "send_message.await"}
RemovalMix == {"create_task", "delete_task.await"}
ChatMix == {"connect", "disconnect", "send_message"}
Mixes == {TaskMix, IdentityMix, ReadMix, InboxMix, OverlapMix, PresenceMix,
          RemovalMix, ChatMix}

\* The router dispatches a request for op.
Serve(op) == op \in mix /\ mix' = mix

(* -------------------------------- Init --------------------------------- *)
NoResponse == Response("none", 0, NoneN, NoneN, NoneN, EmptyUpdate)

\* The task that admin 1 created for employee 2 at time 1.
FirstTask ==
    [id |-> 1, title |-> "t1", description |-> "d1", priority |-> "high",
     status |-> NOT_STARTED, assigned_to |-> 2, assigned_by |-> 1,
     created_at |-> 1, due_date |-> 1, completed_at |-> NoneN,
     estimated_hours |-> 1, actual_hours |-> NoneN, updated_at |-> 1]

\* The server has just started: the presence dict is empty and the store
\* holds what an earlier run left in it, namely the identities ids (the
\* admins among them being admins) and the task admin 1 created for
\* employee 2, with the activities and the notification those requests made.
Started(ids, admins, mixes) ==
    /\ mix \in mixes
    /\ users = [u \in ids |-> User(u, IF u \in admins THEN ADMIN ELSE EMPLOYEE)]
    /\ tasks = <<FirstTask>>
    /\ activities = LET reg == Ascending(ids) IN
                    [i \in 1..(Len(reg) + 1) |->
                        IF i <= Len(reg) THEN Activity(reg[i], "user_registered", NoneN)
                        ELSE Activity(1, "task_created", 1)]
    /\ notifications = <<Notification(2, "New Task Assigned", 1)>>
    /\ connected_users = <<>>
    /\ sio_sids = <<>>
    /\ emitted = <<>>
    /\ now = 1
    /\ uuid = 1
    /\ last = NoResponse
    /\ registering = <<>>
    /\ updating = <<>>
    /\ handling = <<>>
    /\ deleting = <<>>
    /\ messages = <<>>

\* The run starts on that store with any mix, or, for the clients that
\* register, on a store that holds admin 1 alone.
Init == Started({1, 2}, {1}, Mixes) \/ Started({1}, {1}, {IdentityMix})

\* The same start on a deployment that holds CrowdAdmins admins: admin 1 and
\* the admins CrowdIds, none of whom sends a request here.
CrowdIds == (MaxUsers + 1)..(MaxUsers + CrowdAdmins - 1)

InitCrowd == Started({1, 2} \cup CrowdIds, {1} \cup CrowdIds, Mixes)

(* ------------------------------ handlers ------------------------------- *)
\* An HTTPException raised before anything was written.
Reject(op, code, user, task_id) ==
    /\ last' = Response(op, code, user, task_id, NoneN, EmptyUpdate)
    /\ emitted' = <<>>
    /\ UNCHANGED <<users, tasks, activities, notifications, connected_users,
                   sio_sids, now, uuid, registering, deleting, updating,
                   handling, messages>>

\* Depends(get_current_user) raised: HTTPBearer found no credentials, or
\* get_current_user answered 401.
Unauthenticated(op, tok) ==
    IF tok = NoCredentials
    THEN \E code \in BearerRejects : Reject(op, code, NoneN, NoneN)
    ELSE Reject(op, 401, NoneN, NoneN)

\* register: db.users.find_one({"email": user_data.email})
EmailTaken(email) == \E u \in DOMAIN users : users[u].email = email

\* POST /api/auth/register, up to the await that follows the email lookup:
\* the request is turned down, or it is suspended in hash_password with its
\* body.
Register(email, role) ==
    IF EmailTaken(email)
    THEN Reject("register", 400, NoneN, NoneN)
    ELSE /\ Len(registering) < MaxPending
         /\ registering' = Append(registering, [email |-> email, role |-> role])
         /\ last' = Response("register", 0, NoneN, NoneN, NoneN, EmptyUpdate)
         /\ emitted' = <<>>
         /\ UNCHANGED <<users, tasks, activities, notifications, connected_users,
                        sio_sids, now, uuid, deleting, updating, handling, messages>>

\* register, resumed: insert_one of the identity and create_activity.  The
\* email is not looked up again.
RegisterInsert(i) ==
    LET user_data == registering[i]
        free == UserIds \ DOMAIN users
        id == CHOOSE x \in free : \A y \in free : x <= y
    IN
    /\ free # {}
    /\ now < MaxClock
    /\ now' = now + 1
    /\ registering' = [k \in 1..(Len(registering) - 1) |->
                          IF k < i THEN registering[k] ELSE registering[k + 1]]
    /\ users' = [u \in DOMAIN users \cup {id} |->
                    IF u = id THEN User(user_data.email, user_data.role)
                    ELSE users[u]]
    /\ activities' = Append(activities, Activity(id, "user_registered", NoneN))
    /\ emitted' = <<ActivityEvent(Len(activities) + 1)>>
    /\ last' = Response("register", 200, id, NoneN, NoneN, EmptyUpdate)
    /\ UNCHANGED <<tasks, notifications, connected_users, sio_sids, uuid,
                   deleting, updating, handling, messages>>

\* Faulty variant: the notification is sent even without an assignee.
NotifiesAssignee_always(task) == TRUE

\* create_task: if task.assigned_to
NotifiesAssignee(task) == task.assigned_to # NoneN

\* Faulty variant: the role is never looked at.
AdminRequired_never(user_id) == FALSE

\* get_admin_user: the caller is turned down unless an admin.
AdminRequired(user_id) == users[user_id].role # ADMIN

\* Faulty variant: a task is born completed.
InitialStatus_completed == COMPLETED

\* Task.status defaults to not_started and create_task passes no status.
InitialStatus == NOT_STARTED

\* POST /api/tasks
CreateTask(tok, task_data) ==
    LET admin_user == get_current_user(tok) IN
    IF admin_user = NoneN THEN Unauthenticated("create_task", tok)
    ELSE IF AdminRequired(admin_user)
    THEN Reject("create_task", 403, admin_user, NoneN)
    ELSE
      LET id == uuid + 1
          t == now + 1
          task == [id |-> id,
                   title |-> task_data.title,
                   description |-> task_data.description,
                   priority |-> task_data.priority,
                   status |-> InitialStatus,
                   assigned_to |-> task_data.assigned_to,
                   assigned_by |-> admin_user,
                   created_at |-> t,
                   due_date |-> task_data.due_date,
                   completed_at |-> NoneN,
                   estimated_hours |-> task_data.estimated_hours,
                   actual_hours |-> NoneN,
                   updated_at |-> t]
          notify == NotifiesAssignee(task)
      IN
      /\ uuid < MaxTasks
      /\ now < MaxClock
      /\ uuid' = id
      /\ now' = t
      /\ tasks' = [k \in DOMAIN tasks \cup {id} |-> IF k = id THEN task ELSE tasks[k]]
      /\ activities' = Append(activities, Activity(admin_user, "task_created", id))
      /\ notifications' =
           IF notify
           THEN Append(notifications,
                       Notification(task.assigned_to, "New Task Assigned", id))
           ELSE notifications
      /\ emitted' = <<ActivityEvent(Len(activities) + 1)>>
                    \o (IF notify
                        THEN NotificationEvents(task.assigned_to, Len(notifications) + 1)
                        ELSE <<>>)
                    \o <<Event("task_created", "all", 0, id)>>
      /\ last' = Response("create_task", 200, admin_user, id, NoneN, EmptyUpdate)
      /\ UNCHANGED <<users, connected_users, sio_sids, registering, deleting, updating,
                   handling, messages>>

\* Faulty variant: an unassigned task is open to every employee.
AccessDenied_unassigned(role, user_id, task_data) ==
    role = EMPLOYEE /\ task_data.assigned_to \notin {user_id, NoneN}

\* update_task: an employee may only touch a task assigned to them.
AccessDenied(role, user_id, task_data) ==
    role = EMPLOYEE /\ task_data.assigned_to # user_id

\* Faulty variant: every status change is reported to the admins.
NotifiesAdmins_any(role) == TRUE

\* update_task: only an employee's status change is reported to the admins.
NotifiesAdmins(role) == role = EMPLOYEE

\* update_task: one create_notification per listed admin, and the live
\* events those calls emit.
AdminNotifications(task_id) ==
    [i \in 1..Len(admin_users) |->
        Notification(admin_users[i], "Task Status Updated", task_id)]

RECURSIVE AdminNotificationEvents(_, _)
AdminNotificationEvents(i, base) ==
    IF i > Len(admin_users) THEN <<>>
    ELSE NotificationEvents(admin_users[i], base + i)
         \o AdminNotificationEvents(i + 1, base)

\* update_task: the two task_updated emits, global and task room.
TaskUpdatedEvents(task_id) ==
    <<Event("task_updated", "all", 0, task_id),
      Event("task_updated", "task", task_id, task_id)>>

\* PUT /api/tasks/{task_id}
UpdateTask(tok, task_id, req) ==
    LET current_user == get_current_user(tok) IN
    IF current_user = NoneN THEN Unauthenticated("update_task", tok)
    ELSE IF task_id \notin DOMAIN tasks
    THEN Reject("update_task", 404, NoneN, task_id)
    ELSE IF AccessDenied(users[current_user].role, current_user, tasks[task_id])
    THEN Reject("update_task", 403, current_user, task_id)
    ELSE
      LET task_data == tasks[task_id]
          role == users[current_user].role
          upd == update_data(role, req)
          t == now + 1
          updated == ApplySet(task_data, upd, t)
          changed == StatusChanged(upd, task_data)
          raises == changed /\ DescriptionRaises(upd, task_data)
          record == changed /\ ~raises
          notify == record /\ NotifiesAdmins(role)
      IN
      /\ now < MaxClock
      /\ now' = t
      /\ tasks' = [tasks EXCEPT ![task_id] = updated]
      /\ activities' =
           IF record
           THEN Append(activities, Activity(current_user, "task_status_changed", task_id))
           ELSE activities
      /\ notifications' =
           IF notify THEN notifications \o AdminNotifications(task_id)
           ELSE notifications
      /\ emitted' =
           IF raises THEN <<>>
           ELSE (IF record THEN <<ActivityEvent(Len(activities) + 1)>> ELSE <<>>)
                \o (IF notify THEN AdminNotificationEvents(1, Len(notifications))
                    ELSE <<>>)
                \o TaskUpdatedEvents(task_id)
      /\ last' = Response("update_task",
                          IF raises \/ TaskModelRaises(updated) THEN 500 ELSE 200,
                          current_user, task_id, NoneN, req)
      /\ UNCHANGED <<users, connected_users, sio_sids, uuid, registering, deleting, updating,
                   handling, messages>>

\* Faulty variant: delete_one matches nothing.
Remaining_all(task_id) == tasks

\* db.tasks.delete_one({"id": task_id})
Remaining(task_id) == [k \in DOMAIN tasks \ {task_id} |-> tasks[k]]

\* DELETE /api/tasks/{task_id}
DeleteTask(tok, task_id) ==
    LET admin_user == get_current_user(tok) IN
    IF admin_user = NoneN THEN Unauthenticated("delete_task", tok)
    ELSE IF AdminRequired(admin_user)
    THEN Reject("delete_task", 403, admin_user, task_id)
    ELSE IF task_id \notin DOMAIN tasks
    THEN Reject("delete_task", 404, admin_user, task_id)
    ELSE
      /\ tasks' = Remaining(task_id)
      /\ activities' = Append(activities, Activity(admin_user, "task_deleted", task_id))
      /\ emitted' = <<ActivityEvent(Len(activities) + 1),
                      Event("task_deleted", "all", 0, task_id)>>
      /\ last' = Response("delete_task", 200, admin_user, task_id, NoneN, EmptyUpdate)
      /\ UNCHANGED <<users, notifications, connected_users, sio_sids, now, uuid,
                     registering, deleting, updating,
                   handling, messages>>

\* A read: nothing is written, the answer carries the tasks found.
Answer(op, code, user, task_id, result) ==
    /\ last' = [Response(op, code, user, task_id, NoneN, EmptyUpdate)
                   EXCEPT !.result = result]
    /\ emitted' = <<>>
    /\ UNCHANGED <<users, tasks, activities, notifications, connected_users,
                   sio_sids, now, uuid, registering, deleting, updating,
                   handling, messages>>

\* get_tasks: the ids the query returns, find() for an admin and
\* find({"assigned_to": current_user.id}) for anyone else.
Visible(user_id) ==
    IF users[user_id].role = ADMIN THEN DOMAIN tasks
    ELSE {k \in DOMAIN tasks : tasks[k].assigned_to = user_id}

\* GET /api/tasks
GetTasks(tok) ==
    LET current_user == get_current_user(tok) IN
    IF current_user = NoneN THEN Unauthenticated("get_tasks", tok)
    ELSE LET found == {tasks[k] : k \in Visible(current_user)} IN
         IF \E task \in found : TaskModelRaises(task)
         THEN Answer("get_tasks", 500, current_user, NoneN, {})
         ELSE Answer("get_tasks", 200, current_user, NoneN, found)

\* GET /api/tasks/{task_id}
GetTask(tok, task_id) ==
    LET current_user == get_current_user(tok) IN
    IF current_user = NoneN THEN Unauthenticated("get_task", tok)
    ELSE IF task_id \notin DOMAIN tasks
    THEN Answer("get_task", 404, current_user, task_id, {})
    ELSE IF AccessDenied(users[current_user].role, current_user, tasks[task_id])
    THEN Answer("get_task", 403, current_user, task_id, {})
    ELSE IF TaskModelRaises(tasks[task_id])
    THEN Answer("get_task", 500, current_user, task_id, {})
    ELSE Answer("get_task", 200, current_user, task_id, {tasks[task_id]})

\* Faulty variant: the update filters on the id alone.
Matches_any(n, user_id) == n \in DOMAIN notifications

\* mark_notification_read: the filter {"id": notification_id, "user_id":
\* current_user.id}.
Matches(n, user_id) ==
    n \in DOMAIN notifications /\ notifications[n].user_id = user_id

\* PUT /api/notifications/{notification_id}/read; modified_count is 0 when
\* nothing matches and when the matched document is already read.
MarkNotificationRead(tok, n) ==
    LET current_user == get_current_user(tok) IN
    IF current_user = NoneN THEN Unauthenticated("mark_notification_read", tok)
    ELSE IF ~Matches(n, current_user) \/ notifications[n].is_read
    THEN Reject("mark_notification_read", 404, current_user, n)
    ELSE /\ notifications' = [notifications EXCEPT ![n].is_read = TRUE]
         /\ emitted' = <<>>
         /\ last' = Response("mark_notification_read", 200, current_user, n,
                             NoneN, EmptyUpdate)
         /\ UNCHANGED <<users, tasks, activities, connected_users, sio_sids,
                        now, uuid, registering, deleting, updating,
                   handling, messages>>

(* --------------------------- socket handlers --------------------------- *)
\* The auth dict of a socket handshake: a token, or no token at all.
NoToken == NoCredentials
Auths == Tokens \cup {NoToken}

\* Faulty variant: a handle already registered for the identity is kept.
SetSession_first(user_id, sid) ==
    [u \in DOMAIN connected_users \cup {user_id} |->
        IF u \in DOMAIN connected_users THEN connected_users[u] ELSE sid]

\* connect: connected_users[user_id] = sid
SetSession(user_id, sid) ==
    [u \in DOMAIN connected_users \cup {user_id} |->
        IF u = user_id THEN sid ELSE connected_users[u]]

\* connect(sid, environ, auth)
Connect(sid, auth) ==
    /\ sid \notin DOMAIN sio_sids
    /\ IF auth # NoToken /\ jwt_decode_ok(auth) /\ auth.user_id # NoneN
       THEN LET user_id == auth.user_id
                t == now + 1
            IN
            /\ now < MaxClock
            /\ now' = t
            /\ sio_sids' = [s \in DOMAIN sio_sids \cup {sid} |->
                               IF s = sid THEN user_id ELSE sio_sids[s]]
            /\ connected_users' = SetSession(user_id, sid)
            /\ users' = [u \in DOMAIN users |->
                            IF u = user_id
                            THEN [users[u] EXCEPT !.is_online = TRUE, !.last_seen = t]
                            ELSE users[u]]
            /\ emitted' = IF user_id \in DOMAIN users
                          THEN <<Event("user_online", "all", 0, user_id)>>
                          ELSE <<>>
            /\ last' = Response("connect", 0, user_id, NoneN, sid, EmptyUpdate)
            /\ UNCHANGED <<tasks, activities, notifications, uuid, registering, deleting, updating,
                   handling, messages>>
       ELSE /\ emitted' = <<>>
            /\ last' = Response("connect", 0, NoneN, NoneN, sid, EmptyUpdate)
            /\ UNCHANGED <<users, tasks, activities, notifications,
                           connected_users, sio_sids, now, uuid, registering, deleting, updating,
                   handling, messages>>

\* Faulty variant: the scan compares against the wrong key and finds nothing.
FindSession_none(sid) == NoneN

\* disconnect: the first uid of connected_users whose session is sid.
FindSession(sid) ==
    LET uids == {u \in DOMAIN connected_users : connected_users[u] = sid}
    IN IF uids = {} THEN NoneN ELSE CHOOSE u \in uids : \A v \in uids : u <= v

\* Faulty variant: the del is missing and the entry stays.
DropSession_kept(user_id) == connected_users

\* disconnect: del connected_users[user_id]
DropSession(user_id) ==
    [u \in DOMAIN connected_users \ {user_id} |-> connected_users[u]]

\* disconnect(sid); the answer names the identity sid had connected as.
Disconnect(sid) ==
    /\ sio_sids' = [s \in DOMAIN sio_sids \ {sid} |-> sio_sids[s]]
    /\ LET user_id == FindSession(sid)
           t == now + 1
           owner == user_session(sio_sids, sid)
       IN
       IF user_id # NoneN
       THEN /\ now < MaxClock
            /\ now' = t
            /\ connected_users' = DropSession(user_id)
            /\ users' = [u \in DOMAIN users |->
                            IF u = user_id
                            THEN [users[u] EXCEPT !.is_online = FALSE, !.last_seen = t]
                            ELSE users[u]]
            /\ emitted' = IF user_id \in DOMAIN users
                          THEN <<Event("user_offline", "all", 0, user_id)>>
                          ELSE <<>>
            /\ last' = Response("disconnect", 0, owner, NoneN, sid, EmptyUpdate)
            /\ UNCHANGED <<tasks, activities, notifications, uuid, registering, deleting, updating,
                   handling, messages>>
       ELSE /\ emitted' = <<>>
            /\ last' = Response("disconnect", 0, owner, NoneN, sid, EmptyUpdate)
            /\ UNCHANGED <<users, tasks, activities, notifications,
                           connected_users, now, uuid, registering, deleting, updating,
                   handling, messages>>

(* ------------------- update_task, one await at a time ------------------ *)
\* The bodies of the update_task calls that overlap: a completion and a
\* reassignment to MaxUsers.
OverlapUpdate ==
    {[EmptyUpdate EXCEPT !.status = COMPLETED],
     [EmptyUpdate EXCEPT !.assigned_to = MaxUsers]}

\* update_one with the $set a suspended call built from the document
\* task_data it had loaded, applied to the document stored by now.
SetOnStored(stored, upd, task_data, t) ==
    [ApplySet(stored, upd, t) EXCEPT
        !.completed_at = CompletedAt(upd, task_data, stored.completed_at, t)]

\* The suspended update_task calls once call i has returned or raised.
Finished(i) ==
    [k \in 1..(Len(updating) - 1) |->
        IF k < i THEN updating[k] ELSE updating[k + 1]]

\* What a step of a suspended update_task call leaves in last: code 0 while
\* the call goes on, else the status it answers.
Stepped(step, code, call) ==
    Response(step, code, call.user, call.task_id, NoneN, call.req)

\* Faulty variant: the activity is recorded before the write is awaited.
FirstAwait_activity == "create_activity"

\* update_task: the first await after update_data is built.
FirstAwait == "update_one"

\* update_task up to its update_one: get_current_user, the find_one of the
\* task, the permission check and the building of update_data with its
\* stamps.  pc names the await the call is suspended at and committed tells
\* whether its update_one has modified the task.
UpdateLoad(tok, task_id, req) ==
    LET current_user == get_current_user(tok) IN
    IF current_user = NoneN THEN Unauthenticated("update_task.load", tok)
    ELSE IF task_id \notin DOMAIN tasks
    THEN Reject("update_task.load", 404, NoneN, task_id)
    ELSE IF AccessDenied(users[current_user].role, current_user, tasks[task_id])
    THEN Reject("update_task.load", 403, current_user, task_id)
    ELSE
      LET call == [user |-> current_user, task_id |-> task_id, req |-> req,
                   upd |-> update_data(users[current_user].role, req),
                   task_data |-> tasks[task_id],
                   updated_task_data |-> tasks[task_id],
                   t |-> now + 1, pc |-> FirstAwait, committed |-> FALSE]
      IN
      /\ Len(updating) < MaxOverlap
      /\ now < MaxClock
      /\ now' = now + 1
      /\ updating' = Append(updating, call)
      /\ last' = Stepped("update_task.load", 0, call)
      /\ emitted' = <<>>
      /\ UNCHANGED <<users, tasks, activities, notifications, connected_users,
                     sio_sids, uuid, registering, deleting, handling, messages>>

\* await db.tasks.update_one(...): the $set lands on the stored document, or
\* on nothing when the task is gone.
UpdateWrite(i) ==
    LET call == updating[i] IN
    /\ call.pc = "update_one"
    /\ tasks' = IF call.task_id \in DOMAIN tasks
                THEN [tasks EXCEPT ![call.task_id] =
                         SetOnStored(tasks[call.task_id], call.upd,
                                     call.task_data, call.t)]
                ELSE tasks
    /\ updating' = [updating EXCEPT ![i].pc = "find_one",
                                    ![i].committed = call.task_id \in DOMAIN tasks]
    /\ last' = Stepped("update_task.update_one", 0, call)
    /\ emitted' = <<>>
    /\ UNCHANGED <<users, activities, notifications, connected_users, sio_sids,
                   now, uuid, registering, deleting, handling, messages>>

\* updated_task_data = await db.tasks.find_one(...), the datetime parsing
\* (updated_task_data.get on None raises) and the status comparison with the
\* description built from it.
UpdateReread(i) ==
    LET call == updating[i]
        found == call.task_id \in DOMAIN tasks
        changed == StatusChanged(call.upd, call.task_data)
        raises == ~found \/ (changed /\ DescriptionRaises(call.upd, call.task_data))
    IN
    /\ call.pc = "find_one"
    /\ updating' =
         IF raises THEN Finished(i)
         ELSE [updating EXCEPT
                  ![i].pc = IF changed THEN "create_activity" ELSE "emit",
                  ![i].updated_task_data = tasks[call.task_id]]
    /\ last' = Stepped("update_task.find_one", IF raises THEN 500 ELSE 0, call)
    /\ emitted' = <<>>
    /\ UNCHANGED <<users, tasks, activities, notifications, connected_users,
                   sio_sids, now, uuid, registering, deleting, handling, messages>>

\* await create_activity(...): insert_one, then the activity_created emit.
\* stored is whether insert_one went through; when it raises nothing catches
\* the exception and the call ends there.
UpdateRecord(i, stored) ==
    LET call == updating[i] IN
    /\ call.pc = "create_activity"
    /\ IF stored
       THEN /\ activities' = Append(activities,
                                Activity(call.user, "task_status_changed", call.task_id))
            /\ emitted' = <<ActivityEvent(Len(activities) + 1)>>
            /\ updating' = [updating EXCEPT ![i].pc =
                               IF NotifiesAdmins(users[call.user].role)
                               THEN "create_notification" ELSE "emit"]
            /\ last' = Stepped("update_task.create_activity", 0, call)
       ELSE /\ emitted' = <<>>
            /\ updating' = Finished(i)
            /\ last' = Stepped("update_task.create_activity", 500, call)
            /\ UNCHANGED activities
    /\ UNCHANGED <<users, tasks, notifications, connected_users, sio_sids,
                   now, uuid, registering, deleting, handling, messages>>

\* The admin lookup and the create_notification calls of an employee's
\* status change; stored as in UpdateRecord.
UpdateNotify(i, stored) ==
    LET call == updating[i] IN
    /\ call.pc = "create_notification"
    /\ IF stored
       THEN /\ notifications' = notifications \o AdminNotifications(call.task_id)
            /\ emitted' = AdminNotificationEvents(1, Len(notifications))
            /\ updating' = [updating EXCEPT ![i].pc = "emit"]
            /\ last' = Stepped("update_task.create_notification", 0, call)
       ELSE /\ emitted' = <<>>
            /\ updating' = Finished(i)
            /\ last' = Stepped("update_task.create_notification", 500, call)
            /\ UNCHANGED notifications
    /\ UNCHANGED <<users, tasks, activities, connected_users, sio_sids,
                   now, uuid, registering, deleting, handling, messages>>

\* The two task_updated emits and return Task(**updated_task_data).
UpdateReturn(i) ==
    LET call == updating[i] IN
    /\ call.pc = "emit"
    /\ emitted' = TaskUpdatedEvents(call.task_id)
    /\ updating' = Finished(i)
    /\ last' = Stepped("update_task.return",
                       IF TaskModelRaises(call.updated_task_data) THEN 500 ELSE 200,
                       call)
    /\ UNCHANGED <<users, tasks, activities, notifications, connected_users,
                   sio_sids, now, uuid, registering, deleting, handling, messages>>

(* ------------------- delete_task, one await at a time ------------------ *)
\* The suspended delete_task calls once call i has returned or raised.
Gone(i) ==
    [k \in 1..(Len(deleting) - 1) |->
        IF k < i THEN deleting[k] ELSE deleting[k + 1]]

\* delete_task up to its delete_one: get_admin_user and the find_one of the
\* task.  pc names the await the call is suspended at.
DeleteLoad(tok, task_id) ==
    LET admin_user == get_current_user(tok) IN
    IF admin_user = NoneN THEN Unauthenticated("delete_task.load", tok)
    ELSE IF AdminRequired(admin_user)
    THEN Reject("delete_task.load", 403, admin_user, task_id)
    ELSE IF task_id \notin DOMAIN tasks
    THEN Reject("delete_task.load", 404, admin_user, task_id)
    ELSE
      /\ Len(deleting) < MaxDeleting
      /\ deleting' = Append(deleting, [user |-> admin_user, task_id |-> task_id,
                                       pc |-> "delete_one"])
      /\ last' = Response("delete_task.load", 0, admin_user, task_id, NoneN, EmptyUpdate)
      /\ emitted' = <<>>
      /\ UNCHANGED <<users, tasks, activities, notifications, connected_users,
                     sio_sids, now, uuid, registering, updating, handling, messages>>

\* Faulty variant: the count is not looked at.
deleted_count_unchecked(task_id) == 1

\* result.deleted_count of delete_one({"id": task_id})
deleted_count(task_id) == IF task_id \in DOMAIN tasks THEN 1 ELSE 0

\* await db.tasks.delete_one(...) and the check of deleted_count.
DeleteOne(i) ==
    LET call == deleting[i]
        found == deleted_count(call.task_id) # 0
    IN
    /\ call.pc = "delete_one"
    /\ tasks' = Remaining(call.task_id)
    /\ deleting' = IF found THEN [deleting EXCEPT ![i].pc = "create_activity"]
                   ELSE Gone(i)
    /\ last' = Response("delete_task.delete_one", IF found THEN 0 ELSE 404,
                        call.user, call.task_id, NoneN, EmptyUpdate)
    /\ emitted' = <<>>
    /\ UNCHANGED <<users, activities, notifications, connected_users, sio_sids,
                   now, uuid, registering, updating, handling, messages>>

\* await create_activity(..., "task_deleted", ...)
DeleteRecord(i) ==
    LET call == deleting[i] IN
    /\ call.pc = "create_activity"
    /\ activities' = Append(activities,
                            Activity(call.user, "task_deleted", call.task_id))
    /\ emitted' = <<ActivityEvent(Len(activities) + 1)>>
    /\ deleting' = [deleting EXCEPT ![i].pc = "emit"]
    /\ last' = Response("delete_task.create_activity", 0, call.user, call.task_id,
                        NoneN, EmptyUpdate)
    /\ UNCHANGED <<users, tasks, notifications, connected_users, sio_sids,
                   now, uuid, registering, updating, handling, messages>>

\* The task_deleted emit and the answer.
DeleteReturn(i) ==
    LET call == deleting[i] IN
    /\ call.pc = "emit"
    /\ emitted' = <<Event("task_deleted", "all", 0, call.task_id)>>
    /\ deleting' = Gone(i)
    /\ last' = Response("delete_task.return", 200, call.user, call.task_id,
                        NoneN, EmptyUpdate)
    /\ UNCHANGED <<users, tasks, activities, notifications, connected_users,
                   sio_sids, now, uuid, registering, updating, handling, messages>>

(* --------------- connect / disconnect, one await at a time ------------- *)
\* The suspended socket handlers once handler i has returned.
Returned(i) ==
    [k \in 1..(Len(handling) - 1) |->
        IF k < i THEN handling[k] ELSE handling[k + 1]]

\* connect up to its first await: the token is decoded and the handle is put
\* into connected_users; the update_one that sets is_online is still ahead.
ConnectEnter(sid, auth) ==
    /\ sid \notin DOMAIN sio_sids
    /\ IF auth # NoToken /\ jwt_decode_ok(auth) /\ auth.user_id # NoneN
       THEN LET user_id == auth.user_id IN
            /\ Len(handling) < MaxHandlers
            /\ now < MaxPresenceClock
            /\ now' = now + 1
            /\ sio_sids' = [s \in DOMAIN sio_sids \cup {sid} |->
                               IF s = sid THEN user_id ELSE sio_sids[s]]
            /\ connected_users' = SetSession(user_id, sid)
            /\ handling' = Append(handling, [handler |-> "connect", sid |-> sid,
                                             user_id |-> user_id, t |-> now + 1])
            /\ last' = Response("connect.enter", 0, user_id, NoneN, sid, EmptyUpdate)
       ELSE /\ last' = Response("connect.enter", 0, NoneN, NoneN, sid, EmptyUpdate)
            /\ UNCHANGED <<connected_users, sio_sids, now, handling>>
    /\ emitted' = <<>>
    /\ UNCHANGED <<users, tasks, activities, notifications, uuid, registering, deleting,
                   updating, messages>>

\* connect, resumed: update_one sets is_online, then the user_online emit.
ConnectResume(i) ==
    LET h == handling[i] IN
    /\ h.handler = "connect"
    /\ users' = [u \in DOMAIN users |->
                    IF u = h.user_id
                    THEN [users[u] EXCEPT !.is_online = TRUE, !.last_seen = h.t]
                    ELSE users[u]]
    /\ emitted' = IF h.user_id \in DOMAIN users
                  THEN <<Event("user_online", "all", 0, h.user_id)>>
                  ELSE <<>>
    /\ handling' = Returned(i)
    /\ last' = Response("connect.update_one", 0, h.user_id, NoneN, h.sid, EmptyUpdate)
    /\ UNCHANGED <<tasks, activities, notifications, connected_users, sio_sids,
                   now, uuid, registering, deleting, updating, messages>>

\* disconnect up to its first await: the scan of connected_users and the
\* del; the update_one that clears is_online is still ahead.
DisconnectEnter(sid) ==
    LET user_id == FindSession(sid)
        owner == user_session(sio_sids, sid)
    IN
    /\ sio_sids' = [s \in DOMAIN sio_sids \ {sid} |-> sio_sids[s]]
    /\ IF user_id # NoneN
       THEN /\ Len(handling) < MaxHandlers
            /\ now < MaxPresenceClock
            /\ now' = now + 1
            /\ connected_users' = DropSession(user_id)
            /\ handling' = Append(handling, [handler |-> "disconnect", sid |-> sid,
                                             user_id |-> user_id, t |-> now + 1])
       ELSE UNCHANGED <<connected_users, now, handling>>
    /\ last' = Response("disconnect.enter", 0, owner, NoneN, sid, EmptyUpdate)
    /\ emitted' = <<>>
    /\ UNCHANGED <<users, tasks, activities, notifications, uuid, registering, deleting,
                   updating, messages>>

\* disconnect, resumed: update_one clears is_online, then the user_offline
\* emit.
DisconnectResume(i) ==
    LET h == handling[i] IN
    /\ h.handler = "disconnect"
    /\ users' = [u \in DOMAIN users |->
                    IF u = h.user_id
                    THEN [users[u] EXCEPT !.is_online = FALSE, !.last_seen = h.t]
                    ELSE users[u]]
    /\ emitted' = IF h.user_id \in DOMAIN users
                  THEN <<Event("user_offline", "all", 0, h.user_id)>>
                  ELSE <<>>
    /\ handling' = Returned(i)
    /\ last' = Response("disconnect.update_one", 0, h.user_id, NoneN, h.sid, EmptyUpdate)
    /\ UNCHANGED <<tasks, activities, notifications, connected_users, sio_sids,
                   now, uuid, registering, deleting, updating, messages>>

\* Faulty variant: the sender is whoever the handle authenticated as.
Sender_authenticated(sid) == user_session(sio_sids, sid)

\* send_message: the first uid of connected_users whose session is sid.
Sender(sid) ==
    LET uids == {u \in DOMAIN connected_users : connected_users[u] = sid}
    IN IF uids = {} THEN NoneN ELSE CHOOSE u \in uids : \A v \in uids : u <= v

\* The Message document; the message_received event carries it to everyone.
Message(sender_id, content) == [sender_id |-> sender_id, content |-> content]

\* The payloads of send_message: with a content, or without the key.
NoContent == "missing"
MessageData == {"hello", NoContent}

\* send_message(sid, data): the handler returns without a trace when the
\* handle is not in connected_users or its identity is not in db.users, and
\* when data has no content (the KeyError is caught and printed).
SendMessage(sid, data) ==
    LET user_id == Sender(sid)
        accepted == user_id \in DOMAIN users /\ data # NoContent
    IN
    /\ messages' = IF accepted THEN Append(messages, Message(user_id, data))
                   ELSE messages
    /\ emitted' = IF accepted
                  THEN <<Event("message_received", "all", 0, Len(messages) + 1)>>
                  ELSE <<>>
    /\ last' = Response("send_message", 0, user_id, NoneN, sid, EmptyUpdate)
    /\ UNCHANGED <<users, tasks, activities, notifications, connected_users,
                   sio_sids, now, uuid, registering, updating, handling,
                   deleting>>

\* send_message up to its first await: the scan of connected_users.
SendEnter(sid, data) ==
    LET user_id == Sender(sid) IN
    /\ IF user_id # NoneN
       THEN /\ Len(handling) < MaxHandlers
            /\ handling' = Append(handling, [handler |-> "send_message", sid |-> sid,
                                             user_id |-> user_id, data |-> data])
       ELSE UNCHANGED handling
    /\ last' = Response("send_message.enter", 0, user_id, NoneN, sid, EmptyUpdate)
    /\ emitted' = <<>>
    /\ UNCHANGED <<users, tasks, activities, notifications, connected_users,
                   sio_sids, now, uuid, registering, updating, deleting,
                   messages>>

\* send_message, resumed: the find_one of the sender, insert_one of the
\* message and the message_received emit.
SendResume(i) ==
    LET h == handling[i]
        accepted == h.user_id \in DOMAIN users /\ h.data # NoContent
    IN
    /\ h.handler = "send_message"
    /\ messages' = IF accepted THEN Append(messages, Message(h.user_id, h.data))
                   ELSE messages
    /\ emitted' = IF accepted
                  THEN <<Event("message_received", "all", 0, Len(messages) + 1)>>
                  ELSE <<>>
    /\ handling' = Returned(i)
    /\ last' = Response("send_message.insert_one", 0, h.user_id, NoneN, h.sid,
                        EmptyUpdate)
    /\ UNCHANGED <<users, tasks, activities, notifications, connected_users,
                   sio_sids, now, uuid, registering, updating, deleting>>

(* ------------------------------- system -------------------------------- *)
Next ==
    \/ /\ Serve("register")
       /\ \E email \in UserIds, role \in UserRole : Register(email, role)
    \/ /\ Serve("register")
       /\ \E i \in DOMAIN registering : RegisterInsert(i)
    \/ /\ Serve("create_task")
       /\ \E tok \in Credentials :
             /\ Issued(tok)
             /\ IF get_current_user(tok) = NoneN THEN CreateTask(tok, AnyTaskCreate)
                ELSE \E task_data \in TaskCreate : CreateTask(tok, task_data)
    \/ /\ Serve("update_task")
       /\ \E tok \in Credentials :
             /\ Issued(tok)
             /\ IF get_current_user(tok) = NoneN THEN UpdateTask(tok, 1, EmptyUpdate)
                ELSE \E task_id \in TaskIds, req \in TaskUpdate :
                        UpdateTask(tok, task_id, req)
    \/ /\ Serve("delete_task")
       /\ \E tok \in Credentials :
             /\ Issued(tok)
             /\ IF get_current_user(tok) = NoneN THEN DeleteTask(tok, 1)
                ELSE \E task_id \in TaskIds : DeleteTask(tok, task_id)
    \/ /\ Serve("get_tasks")
       /\ \E tok \in Credentials : Issued(tok) /\ GetTasks(tok)
    \/ /\ Serve("get_task")
       /\ \E tok \in Credentials :
             /\ Issued(tok)
             /\ IF get_current_user(tok) = NoneN THEN GetTask(tok, 1)
                ELSE \E task_id \in TaskIds : GetTask(tok, task_id)
    \/ /\ Serve("mark_notification_read")
       /\ \E tok \in Credentials :
             /\ Issued(tok)
             /\ IF get_current_user(tok) = NoneN THEN MarkNotificationRead(tok, 1)
                ELSE \E n \in 1..(Len(notifications) + 1) :
                        MarkNotificationRead(tok, n)
    \/ /\ Serve("connect")
       /\ \E sid \in Sids, auth \in Auths : Issued(auth) /\ Connect(sid, auth)
    \/ /\ Serve("disconnect")
       /\ \E sid \in Sids : Disconnect(sid)
    \/ /\ Serve("update_task.await")
       /\ \E tok \in Credentials :
             /\ Issued(tok)
             /\ IF get_current_user(tok) = NoneN THEN UpdateLoad(tok, 1, EmptyUpdate)
                ELSE \E task_id \in TaskIds, req \in OverlapUpdate :
                        UpdateLoad(tok, task_id, req)
    \/ /\ Serve("update_task.await")
       /\ \E i \in DOMAIN updating : UpdateWrite(i)
    \/ /\ Serve("update_task.await")
       /\ \E i \in DOMAIN updating : UpdateReread(i)
    \/ /\ Serve("update_task.await")
       /\ \E i \in DOMAIN updating, stored \in BOOLEAN : UpdateRecord(i, stored)
    \/ /\ Serve("update_task.await")
       /\ \E i \in DOMAIN updating, stored \in BOOLEAN : UpdateNotify(i, stored)
    \/ /\ Serve("update_task.await")
       /\ \E i \in DOMAIN updating : UpdateReturn(i)
    \/ /\ Serve("delete_task.await")
       /\ \E tok \in Credentials :
             /\ Issued(tok)
             /\ IF get_current_user(tok) = NoneN THEN DeleteLoad(tok, 1)
                ELSE \E task_id \in TaskIds : DeleteLoad(tok, task_id)
    \/ /\ Serve("delete_task.await")
       /\ \E i \in DOMAIN deleting : DeleteOne(i)
    \/ /\ Serve("delete_task.await")
       /\ \E i \in DOMAIN deleting : DeleteRecord(i)
    \/ /\ Serve("delete_task.await")
       /\ \E i \in DOMAIN deleting : DeleteReturn(i)
    \/ /\ Serve("connect.await")
       /\ \E sid \in Sids, auth \in Auths : Issued(auth) /\ ConnectEnter(sid, auth)
    \/ /\ Serve("connect.await")
       /\ \E i \in DOMAIN handling : ConnectResume(i)
    \/ /\ Serve("disconnect.await")
       /\ \E sid \in Sids : DisconnectEnter(sid)
    \/ /\ Serve("disconnect.await")
       /\ \E i \in DOMAIN handling : DisconnectResume(i)
    \/ /\ Serve("send_message")
       /\ \E sid \in Sids, data \in MessageData :
             Len(messages) < MaxMessages /\ SendMessage(sid, data)
    \/ /\ Serve("send_message.await")
       /\ \E sid \in Sids, data \in MessageData :
             Len(messages) + Len(handling) < MaxMessages /\ SendEnter(sid, data)
    \/ /\ Serve("send_message.await")
       /\ \E i \in DOMAIN handling : SendResume(i)

Spec == Init /\ [][Next]_vars

SpecCrowd == InitCrowd /\ [][Next]_vars

TypeOK ==
    /\ now \in 1..(IF mix = PresenceMix THEN MaxPresenceClock ELSE MaxClock)
    /\ uuid \in 0..MaxTasks
    /\ DOMAIN tasks \subseteq TaskIds
    /\ Len(registering) <= MaxPending
    /\ Len(updating) <= MaxOverlap
    /\ Len(handling) <= MaxHandlers
    /\ Len(deleting) <= MaxDeleting
    /\ Len(messages) <= MaxMessages
    /\ mix \in Mixes

(* ------------------------------ properties ----------------------------- *)
\* The step just taken ran update_task for a caller that passed authentication
\* on a task that was in the store.
UpdateStep ==
    /\ last'.op = "update_task"
    /\ last'.user \in DOMAIN users
    /\ last'.task_id \in DOMAIN tasks

CallerRole == users[last'.user].role

\* The fields an employee must never alter.
FrameFields == {"id", "title", "description", "priority", "assigned_to",
                "due_date", "estimated_hours", "assigned_by"}

\* C1: an update_task call by the employee the task is assigned to leaves id,
\* title, description, priority, assigned_to, due_date, estimated_hours and
\* assigned_by of the stored task as they were, whatever the body sets; a body
\* that sets other fields is not refused: its status and actual_hours are
\* still written.
C1_EmployeeFrame ==
    [][(/\ UpdateStep
        /\ CallerRole = EMPLOYEE
        /\ tasks[last'.task_id].assigned_to = last'.user)
       => LET id == last'.task_id
              req == last'.req
          IN /\ last'.code # 403
             /\ \A f \in FrameFields : tasks'[id][f] = tasks[id][f]
             /\ \A k \in DOMAIN tasks \ {id} : tasks'[k] = tasks[k]
             /\ req.status # UnsetS => tasks'[id].status = req.status
             /\ req.actual_hours # UnsetN => tasks'[id].actual_hours = req.actual_hours
      ]_vars

\* C1 witness: the assignee sent a body with a new title and got 200.
C1_Witness ==
    /\ last.op = "update_task"
    /\ last.code = 200
    /\ last.user \in DOMAIN users
    /\ users[last.user].role = EMPLOYEE
    /\ last.req.title # UnsetS
    /\ tasks[last.task_id].title # last.req.title

\* C2: update_task by an employee who is not the task's assignee fails with
\* 403 and leaves tasks, activities and notifications as they were, and emits
\* no event.
C2_ForbiddenNoEffect ==
    [][(/\ UpdateStep
        /\ CallerRole = EMPLOYEE
        /\ tasks[last'.task_id].assigned_to # last'.user)
       => /\ last'.code = 403
          /\ tasks' = tasks
          /\ activities' = activities
          /\ notifications' = notifications
          /\ emitted' = <<>>
      ]_vars

\* C2 witness: an employee was refused on a task assigned to nobody.
C2_Witness ==
    /\ last.op = "update_task"
    /\ last.code = 403
    /\ last.user \in DOMAIN users
    /\ last.task_id \in DOMAIN tasks
    /\ tasks[last.task_id].assigned_to = NoneN

\* C3 as stated: in every reachable state completed_at is non-null exactly
\* when the task's status is completed.
C3_CompletedAtIffCompleted ==
    \A t \in DOMAIN tasks :
        (tasks[t].completed_at # NoneN) <=> (tasks[t].status = COMPLETED)

\* C3 as amended: completed_at is non-null exactly when the task's status is
\* completed or was completed before: a step leaves it non-null if and only
\* if it was non-null already or the step leaves the status completed.
C3_CompletedAtIffEverCompleted ==
    [][\A t \in DOMAIN tasks' :
          (tasks'[t].completed_at # NoneN)
          <=> \/ t \in DOMAIN tasks /\ tasks[t].completed_at # NoneN
              \/ tasks'[t].status = COMPLETED
      ]_vars

\* C3 witness: a task that has left completed and kept its stamp.
C3_Witness ==
    \E t \in DOMAIN tasks :
        /\ tasks[t].status \in TaskStatus \ {COMPLETED}
        /\ tasks[t].completed_at # NoneN

\* The step just taken ran update_task past its permission check.
CommitStep == UpdateStep /\ last'.code # 403

\* The body {"status": "completed"}.
CompletedOnly == [EmptyUpdate EXCEPT !.status = COMPLETED]

\* C4: when a caller sends {"status": "completed"} twice in a row on a task
\* that was not completed, the first call stamps completed_at and records one
\* activity; the second keeps completed_at, makes no effective change to the
\* task and records no activity and no notification.
C4_CompletedTwice ==
    [][CommitStep /\ last'.req = CompletedOnly
       => LET id == last'.task_id IN
          /\ tasks[id].status # COMPLETED
             => /\ tasks'[id].completed_at # NoneN
                /\ Len(activities') = Len(activities) + 1
          /\ (/\ tasks[id].status = COMPLETED
              /\ last.op = "update_task"
              /\ last.req = CompletedOnly
              /\ last.user = last'.user
              /\ last.task_id = id)
             => /\ tasks'[id].completed_at = tasks[id].completed_at
                /\ tasks'[id] = tasks[id]
                /\ activities' = activities
                /\ notifications' = notifications
      ]_vars

\* C5: update_task appends exactly one activity when the status its body
\* sets differs from the stored status, and none otherwise.
C5_OneActivityPerStatusChange ==
    [][CommitStep
       => LET id == last'.task_id
              req == last'.req
          IN IF req.status # UnsetS /\ req.status # tasks[id].status
             THEN Len(activities') = Len(activities) + 1
             ELSE activities' = activities
      ]_vars

\* The notifications a step has added for identity u.
AddedFor(u) ==
    {i \in (Len(notifications) + 1)..Len(notifications') :
        notifications'[i].user_id = u}

\* C6: a status change by an employee, from one TaskStatus value to another,
\* adds exactly one notification for each registered admin and none for
\* anyone else.
C6_OneNotificationPerAdmin ==
    [][(/\ CommitStep
        /\ CallerRole = EMPLOYEE
        /\ last'.req.status \in TaskStatus
        /\ tasks[last'.task_id].status \in TaskStatus
        /\ last'.req.status # tasks[last'.task_id].status)
       => /\ \A u \in DOMAIN users :
                Cardinality(AddedFor(u)) = IF users[u].role = ADMIN THEN 1 ELSE 0
          /\ Len(notifications') = Len(notifications) + Cardinality(Admins)
      ]_vars

\* C7: a successful create_task stores the task, records exactly one
\* task_created activity and emits task_created to everyone; it adds exactly
\* one notification, for the assignee and with the new task's id, when the
\* body names an assignee, and none when it does not.
C7_CreateNotifiesAssignee ==
    [][last'.op = "create_task" /\ last'.code = 200
       => LET id == last'.task_id IN
          /\ id \notin DOMAIN tasks
          /\ id \in DOMAIN tasks'
          /\ activities' = Append(activities, Activity(last'.user, "task_created", id))
          /\ notifications' =
               IF tasks'[id].assigned_to # NoneN
               THEN Append(notifications,
                           [user_id |-> tasks'[id].assigned_to,
                            title |-> "New Task Assigned",
                            task_id |-> id, is_read |-> FALSE])
               ELSE notifications
          /\ \E i \in DOMAIN emitted' : emitted'[i] = Event("task_created", "all", 0, id)
      ]_vars

\* C7 witness: an admin created a task for an assignee.
C7_Witness ==
    /\ last.op = "create_task"
    /\ last.code = 200
    /\ tasks[last.task_id].assigned_to # NoneN
    /\ notifications[Len(notifications)].task_id = last.task_id

\* C8: no update_task call by an admin changes the notifications.
C8_AdminNeverNotifies ==
    [][UpdateStep /\ CallerRole = ADMIN => notifications' = notifications]_vars

\* C8 witness: an admin's update changed a status and was recorded.
C8_Witness ==
    /\ last.op = "update_task"
    /\ last.code = 200
    /\ users[last.user].role = ADMIN
    /\ activities[Len(activities)] = Activity(last.user, "task_status_changed", last.task_id)

\* C9 as stated: once connect(sid, token) has run with a token that decodes,
\* a targeted push to the token's identity goes to sid, a live handle; once
\* disconnect(sid) has run for a handle that connected as an identity, a
\* targeted push to that identity goes to no handle.
C9_ReachableUntilDisconnect ==
    [][/\ (last'.op = "connect" /\ last'.user # NoneN)
          => /\ user_session(connected_users', last'.user) = last'.sid
             /\ last'.sid \in DOMAIN sio_sids'
       /\ (last'.op = "disconnect" /\ last'.sid \in DOMAIN sio_sids)
          => user_session(connected_users', sio_sids[last'.sid]) = NoneN
      ]_vars

\* C9 as amended: the same, except that disconnect(sid) cuts the identity off
\* only when sid is the handle the presence dict holds for it; when the
\* identity has connected again through a newer handle, disconnect(sid)
\* leaves the presence dict as it was.
C9_ReachableUntilOwnDisconnect ==
    [][/\ (last'.op = "connect" /\ last'.user # NoneN)
          => /\ user_session(connected_users', last'.user) = last'.sid
             /\ last'.sid \in DOMAIN sio_sids'
       /\ (last'.op = "disconnect" /\ last'.sid \in DOMAIN sio_sids)
          => LET user_id == sio_sids[last'.sid] IN
             IF user_session(connected_users, user_id) = last'.sid
             THEN user_session(connected_users', user_id) = NoneN
             ELSE connected_users' = connected_users
      ]_vars

\* C9 witness: an identity connected and its handle has disconnected.
C9_Witness ==
    /\ last.op = "disconnect"
    /\ last.user # NoneN
    /\ user_session(connected_users, last.user) = NoneN

\* The notifications a step has added.
Added == (Len(notifications) + 1)..Len(notifications')

\* The notification events a step has emitted for notification i.
LiveFor(i) ==
    {k \in DOMAIN emitted' :
        emitted'[k].event = "notification" /\ emitted'[k].ref = i}

\* C10: create_task with an assignee stores its notification whether or not
\* the recipient is connected; a stored notification is emitted once, to the
\* recipient's session, when connected_users holds one, and not at all when
\* it holds none; no other notification event is emitted and the request that
\* caused it ends 200 (a suspended update_task call goes on to its emits).
C10_PersistAlwaysEmitIfOnline ==
    [][/\ (/\ last'.op = "create_task"
           /\ last'.code = 200
           /\ tasks'[last'.task_id].assigned_to # NoneN)
          => Cardinality(Added) = 1
       /\ \A i \in Added :
             LET session == user_session(connected_users, notifications'[i].user_id)
             IN IF session # NoneN
                THEN /\ Cardinality(LiveFor(i)) = 1
                     /\ \A k \in LiveFor(i) :
                           emitted'[k].kind = "sid" /\ emitted'[k].room = session
                ELSE LiveFor(i) = {}
       /\ \A k \in DOMAIN emitted' :
             emitted'[k].event = "notification" => emitted'[k].ref \in Added
       /\ Added # {}
          => last'.code = IF last'.op = "update_task.create_notification"
                          THEN 0 ELSE 200
      ]_vars

\* C10 witness: a request ended 200 and its notification went out live.
C10_Witness ==
    /\ last.code = 200
    /\ \E k \in DOMAIN emitted : emitted[k].event = "notification"

\* The step just taken ran op for a caller that passed authentication.
Called(op) == last'.op = op /\ last'.user \in DOMAIN users

\* C11: mark_notification_read by anyone but the recipient, or with an id no
\* notification has, answers 404 and leaves every notification as it was; no
\* step removes a notification or changes anything of it but is_read, and
\* is_read changes only in a mark_notification_read step of the recipient on
\* that notification.
C11_ReadFlagOnlyByRecipient ==
    [][/\ (/\ Called("mark_notification_read")
           /\ \/ last'.task_id \notin DOMAIN notifications
              \/ notifications[last'.task_id].user_id # last'.user)
          => last'.code = 404 /\ notifications' = notifications
       /\ \A i \in DOMAIN notifications :
             /\ i \in DOMAIN notifications'
             /\ [notifications'[i] EXCEPT !.is_read = FALSE]
                = [notifications[i] EXCEPT !.is_read = FALSE]
             /\ notifications'[i].is_read # notifications[i].is_read
                => /\ Called("mark_notification_read")
                   /\ last'.user = notifications[i].user_id
                   /\ last'.task_id = i
      ]_vars

\* C11 witness: an identity was answered 404 on an unread notification
\* addressed to somebody else.
C11_Witness ==
    /\ last.op = "mark_notification_read"
    /\ last.code = 404
    /\ last.user \in DOMAIN users
    /\ last.task_id \in DOMAIN notifications
    /\ notifications[last.task_id].user_id # last.user
    /\ ~notifications[last.task_id].is_read
    /\ \E i \in DOMAIN notifications : notifications[i].is_read

\* The credentials C12 is about: none, a bad signature, a passed expiry, no
\* user_id claim, or a user_id that db.users does not hold.
BadCredentials ==
    {tok \in Credentials :
        \/ tok = NoCredentials
        \/ tok.sig # "ok"
        \/ tok.exp # "live"
        \/ tok.user_id \notin DOMAIN users}

\* Every protected operation, called with tok and any arguments.
ProtectedCall(tok) ==
    \/ \E task_data \in TaskCreate : CreateTask(tok, task_data)
    \/ \E task_id \in TaskIds, req \in TaskUpdate : UpdateTask(tok, task_id, req)
    \/ \E task_id \in TaskIds : DeleteTask(tok, task_id)
    \/ GetTasks(tok)
    \/ \E task_id \in TaskIds : GetTask(tok, task_id)
    \/ \E n \in 1..(Len(notifications) + 1) : MarkNotificationRead(tok, n)

\* The call was turned down for its credentials and wrote nothing.
Refused(tok) ==
    /\ last'.code \in (IF tok = NoCredentials THEN BearerRejects ELSE {401})
    /\ last'.result = {}
    /\ emitted' = <<>>
    /\ UNCHANGED <<users, tasks, activities, notifications, connected_users>>

C13_AdminOnly ==
    [][(/\ Called("create_task") \/ Called("delete_task")
        /\ users[last'.user].role = EMPLOYEE)
       => /\ last'.code = 403
          /\ tasks' = tasks
          /\ activities' = activities
          /\ notifications' = notifications
          /\ emitted' = <<>>
      ]_vars

\* C13 witness: an employee was refused the deletion of a stored task.
C13_Witness ==
    /\ last.op = "delete_task"
    /\ last.code = 403
    /\ last.task_id \in DOMAIN tasks
    /\ users[last.user].role = EMPLOYEE

\* The ids uuid4 has generated for tasks that are no longer stored.
Deleted == (1..uuid) \ DOMAIN tasks

\* C14: delete_task by an admin answers 404 and changes nothing when the
\* task is not stored; when it is stored the task leaves the store, exactly
\* one task_deleted activity is appended and task_deleted is emitted to
\* everyone.  A deleted id never comes back, and get_task, update_task and
\* delete_task on it answer 404 to every caller they admit.
C14_DeleteThenNotFound ==
    [][/\ (Called("delete_task") /\ users[last'.user].role = ADMIN)
          => LET id == last'.task_id IN
             IF id \in DOMAIN tasks
             THEN /\ last'.code = 200
                  /\ DOMAIN tasks' = DOMAIN tasks \ {id}
                  /\ \A k \in DOMAIN tasks' : tasks'[k] = tasks[k]
                  /\ activities' = Append(activities,
                                          Activity(last'.user, "task_deleted", id))
                  /\ \E k \in DOMAIN emitted' :
                        emitted'[k] = Event("task_deleted", "all", 0, id)
             ELSE /\ last'.code = 404
                  /\ tasks' = tasks
                  /\ activities' = activities
                  /\ notifications' = notifications
                  /\ emitted' = <<>>
       /\ Deleted \subseteq Deleted'
       /\ (/\ last'.op \in {"get_task", "update_task", "delete_task"}
           /\ last'.task_id \in Deleted)
          => /\ last'.code \in {404, 403}
             /\ last'.code = 403
                => /\ last'.op = "delete_task"
                   /\ users[last'.user].role = EMPLOYEE
             /\ tasks' = tasks
             /\ activities' = activities
             /\ emitted' = <<>>
      ]_vars

\* C14 witness: a task was deleted and a later get_task of its id was
\* answered 404.
C14_Witness ==
    /\ last.op = "get_task"
    /\ last.code = 404
    /\ last.task_id \in Deleted
    /\ \E i \in DOMAIN activities :
          activities[i].action = "task_deleted" /\ activities[i].task_id = last.task_id

\* C15: get_tasks answers an admin with every stored task and an employee
\* with exactly the tasks assigned to them; get_task on a task that is not
\* assigned to the calling employee answers 403; no read hands an employee
\* a task that is not assigned to them.
C15_ReadsFilteredByRole ==
    [][/\ Called("get_tasks")
          => /\ last'.code = 200
             /\ last'.result =
                  IF users[last'.user].role = ADMIN
                  THEN {tasks[k] : k \in DOMAIN tasks}
                  ELSE {tasks[k] : k \in {j \in DOMAIN tasks :
                                            tasks[j].assigned_to = last'.user}}
       /\ (/\ Called("get_task")
           /\ last'.task_id \in DOMAIN tasks
           /\ users[last'.user].role = EMPLOYEE
           /\ tasks[last'.task_id].assigned_to # last'.user)
          => last'.code = 403
       /\ (/\ last'.op \in {"get_tasks", "get_task"}
           /\ last'.user \in DOMAIN users
           /\ users[last'.user].role = EMPLOYEE)
          => \A task \in last'.result : task.assigned_to = last'.user
      ]_vars

\* C16: no step changes the id or the assigned_by of a stored task; a task
\* enters the store under the id create_task answers with, owned by the
\* admin that created it.
C16_OwnerAndIdImmutable ==
    [][/\ \A k \in DOMAIN tasks \cap DOMAIN tasks' :
             /\ tasks'[k].assigned_by = tasks[k].assigned_by
             /\ tasks'[k].id = tasks[k].id
       /\ \A k \in DOMAIN tasks' \ DOMAIN tasks :
             /\ Called("create_task")
             /\ users[last'.user].role = ADMIN
             /\ last'.task_id = k
             /\ tasks'[k].id = k
             /\ tasks'[k].assigned_by = last'.user
      ]_vars

\* C16 witness: an admin who does not own the task rewrote every field
\* TaskUpdate has, the assignee included, and the owner is still another id.
C16_Witness ==
    /\ last.op = "update_task"
    /\ last.code = 200
    /\ last.req.assigned_to # UnsetN
    /\ last.req.title # UnsetS
    /\ tasks[last.task_id].assigned_to = last.req.assigned_to
    /\ tasks[last.task_id].assigned_by # last.req.assigned_to

\* C17: in every reachable state no two stored identities have the same
\* email.
C17_EmailsUnique ==
    \A u, v \in DOMAIN users : users[u].email = users[v].email => u = v

\* The fields of the role-filtered body that differ from the stored task.
EffectiveChanges(upd, task_data) ==
    {f \in SetFields(upd) : upd[f] # task_data[f]}

\* C18: an update_task call whose role-filtered body changes no field of the
\* stored task answers 200 and leaves the stored task as it was, updated_at
\* included.
C18_NoOpLeavesTaskAlone ==
    [][(/\ CommitStep
        /\ EffectiveChanges(update_data(CallerRole, last'.req),
                            tasks[last'.task_id]) = {})
       => /\ last'.code = 200
          /\ tasks'[last'.task_id] = tasks[last'.task_id]
      ]_vars

\* C19: connect(sid, token) for identity A leaves A registered under sid and
\* under no other handle, whatever handle A had before, and touches nobody
\* else's handle; disconnect of a handle that A has since replaced leaves
\* the presence dict and the identities as they were, A registered under the
\* newer handle and online, and emits no user_offline.
C19_OneHandlePerIdentity ==
    [][/\ (last'.op = "connect" /\ last'.user # NoneN)
          => /\ DOMAIN connected_users' = DOMAIN connected_users \cup {last'.user}
             /\ \A u \in DOMAIN connected_users' :
                   connected_users'[u] =
                      IF u = last'.user THEN last'.sid ELSE connected_users[u]
       /\ (/\ last'.op = "disconnect"
           /\ last'.user # NoneN
           /\ user_session(connected_users, last'.user) \notin {NoneN, last'.sid})
          => /\ connected_users' = connected_users
             /\ users' = users
             /\ last'.user \in DOMAIN users => users'[last'.user].is_online
             /\ emitted' = <<>>
      ]_vars

\* C19 witness: A connected twice and the older handle has disconnected; A
\* is registered under the newer handle and online.
C19_Witness ==
    /\ last.op = "disconnect"
    /\ last.user \in DOMAIN users
    /\ user_session(connected_users, last.user) \notin {NoneN, last.sid}
    /\ users[last.user].is_online

\* C20: a connect whose token does not authenticate (no token, bad
\* signature, expired, no user_id claim, or a user_id db.users does not hold)
\* leaves the presence dict and every identity as they were and emits no
\* user_online; a connect whose token authenticates registers the handle.
C20_ConnectOnlyIfAuthenticated ==
    [][last'.op = "connect"
       => IF last'.user \in DOMAIN users
          THEN user_session(connected_users', last'.user) = last'.sid
          ELSE /\ connected_users' = connected_users
               /\ users' = users
               /\ emitted' = <<>>
      ]_vars

\* C21: a create_task or update_task call that answers 200 and sets the
\* assignee of a task leaves it empty or naming an existing identity whose
\* role is employee.
C21_AssigneeIsEmployee ==
    [][(/\ last'.op \in {"create_task", "update_task"}
        /\ last'.code = 200
        /\ last'.task_id \in DOMAIN tasks'
        /\ \/ last'.task_id \notin DOMAIN tasks
           \/ tasks'[last'.task_id].assigned_to # tasks[last'.task_id].assigned_to)
       => LET assigned_to == tasks'[last'.task_id].assigned_to IN
          \/ assigned_to = NoneN
          \/ /\ assigned_to \in DOMAIN users
             /\ users[assigned_to].role = EMPLOYEE
      ]_vars

\* C22: no step takes a completed_at that is set back to null, whatever
\* status an update_task call moves the task to.
C22_CompletedAtNeverCleared ==
    [][\A id \in DOMAIN tasks \cap DOMAIN tasks' :
          tasks[id].completed_at # NoneN => tasks'[id].completed_at # NoneN
      ]_vars

\* C22 witness: an update_task call has just moved a completed task to
\* another status, and the stamp is still there.
C22_Witness ==
    /\ last.op = "update_task"
    /\ last.code = 200
    /\ last.req.status \in TaskStatus \ {COMPLETED}
    /\ last.task_id \in DOMAIN tasks
    /\ tasks[last.task_id].status = last.req.status
    /\ tasks[last.task_id].completed_at # NoneN

\* C23: the status of every stored task is one of the four enum values.
C23_StatusInEnum ==
    \A id \in DOMAIN tasks : tasks[id].status \in TaskStatus

\* C24: a create_activity or create_notification step of an update_task
\* call never ends the call with an error: whether or not the insert went
\* through, the call stays on its way to the task_updated emits and its 200.
C24_BestEffortFailureNotSurfaced ==
    [][last'.op \in {"update_task.create_activity", "update_task.create_notification"}
       => /\ last'.code = 0
          /\ Len(updating') = Len(updating)
      ]_vars

\* The step just taken added a task_status_changed activity or a Task Status
\* Updated notification for task id, or emitted task_updated for it.
Caused(id) ==
    \/ /\ Len(activities') > Len(activities)
       /\ activities'[Len(activities')] = Activity(last'.user, "task_status_changed", id)
    \/ /\ Len(notifications') > Len(notifications)
       /\ notifications'[Len(notifications')].title = "Task Status Updated"
       /\ notifications'[Len(notifications')].task_id = id
    \/ \E k \in DOMAIN emitted' :
          emitted'[k].event = "task_updated" /\ emitted'[k].ref = id

\* C25: whatever an update causes (activity, notification, task_updated
\* event) appears only once that update's write has been committed: in the
\* step of an update_task handler that contains the write, or in a later step
\* of a suspended call whose update_one has modified the task; and every
\* activity_created / notification event refers to a record already
\* inserted.
C25_WriteBeforeEvents ==
    [][/\ \A id \in TaskIds :
             Caused(id)
             => \/ /\ last'.op = "update_task"
                   /\ last'.task_id = id
                   /\ tasks'[id].updated_at = now'
                \/ /\ last'.op \in {"update_task.create_activity",
                                   "update_task.create_notification",
                                   "update_task.return"}
                   /\ \A i \in DOMAIN updating :
                         (/\ updating[i].task_id = id
                          /\ updating[i].user = last'.user
                          /\ updating[i].pc \notin {"update_one", "find_one"})
                         => updating[i].committed
                   /\ \E i \in DOMAIN updating :
                         /\ updating[i].task_id = id
                         /\ updating[i].user = last'.user
                         /\ updating[i].committed
       /\ \A k \in DOMAIN emitted' :
             /\ emitted'[k].event = "activity_created"
                => emitted'[k].ref \in DOMAIN activities'
             /\ emitted'[k].event = "notification"
                => emitted'[k].ref \in DOMAIN notifications'
      ]_vars

\* C25 witness: a suspended call has just inserted its activity after its
\* write was committed, and the activity_created event names that record.
C25_Witness ==
    /\ last.op = "update_task.create_activity"
    /\ last.code = 0
    /\ \E i \in DOMAIN updating :
          /\ updating[i].user = last.user
          /\ updating[i].committed
          /\ updating[i].pc \in {"create_notification", "emit"}
    /\ emitted = <<ActivityEvent(Len(activities))>>
    /\ activities[Len(activities)] =
          Activity(last.user, "task_status_changed", last.task_id)
    /\ tasks[last.task_id].status = COMPLETED

\* C26: the status and actual_hours of a stored task change only in a step
\* of a caller who is an admin or is the task's assignee when the write
\* lands.
C26_WriterIsAdminOrAssignee ==
    [][\A id \in DOMAIN tasks \cap DOMAIN tasks' :
          (\/ tasks'[id].status # tasks[id].status
           \/ tasks'[id].actual_hours # tasks[id].actual_hours)
          => /\ last'.user \in DOMAIN users
             /\ \/ users[last'.user].role = ADMIN
                \/ tasks[id].assigned_to = last'.user
      ]_vars

\* The task_status_changed activities recorded for task id.
StatusActivities(id) ==
    {k \in DOMAIN activities' :
        /\ activities'[k].action = "task_status_changed"
        /\ activities'[k].task_id = id}

\* C27: when the update_task calls of a run all ask for completed, a write
\* that finds the task already completed leaves completed_at as it is, and
\* the task never has more than one task_status_changed activity.
C27_CompletedOnceUnderOverlap ==
    [][mix = OverlapMix
       => \A id \in DOMAIN tasks \cap DOMAIN tasks' :
             /\ tasks[id].status = COMPLETED
                => tasks'[id].completed_at = tasks[id].completed_at
             /\ Cardinality(StatusActivities(id)) <= 1
      ]_vars

\* C28: a step of update_task that looks the task up and finds none answers
\* 404, and no later step of the call records or emits anything for the
\* task that is gone.
C28_AbsentTaskNotFound ==
    [][(/\ last'.op \in {"update_task", "update_task.load", "update_task.find_one",
                         "update_task.create_activity",
                         "update_task.create_notification", "update_task.return"}
        /\ last'.task_id \in TaskIds \ DOMAIN tasks)
       => /\ last'.code = 404
          /\ activities' = activities
          /\ notifications' = notifications
          /\ emitted' = <<>>
      ]_vars

\* C29: when no connect or disconnect handler is suspended, an identity is
\* flagged online exactly when connected_users holds a handle for it.
C29_OnlineIffRegistered ==
    handling = <<>>
    => \A u \in DOMAIN users : users[u].is_online <=> u \in DOMAIN connected_users

\* C30: a notification event goes to one handle, the one connected_users
\* holds for the recipient, and every handle connected_users holds is a
\* connected handle that authenticated as the identity it is held for.
C30_NotificationToRecipientHandle ==
    [][/\ \A k \in DOMAIN emitted' :
             emitted'[k].event = "notification"
             => LET user_id == notifications'[emitted'[k].ref].user_id IN
                /\ emitted'[k].kind = "sid"
                /\ emitted'[k].room = user_session(connected_users', user_id)
                /\ emitted'[k].room \in DOMAIN sio_sids'
                /\ sio_sids'[emitted'[k].room] = user_id
       /\ \A u \in DOMAIN connected_users' :
             /\ connected_users'[u] \in DOMAIN sio_sids'
             /\ sio_sids'[connected_users'[u]] = u
      ]_vars

\* C30 witness: the notification of an employee's update_task call has just
\* gone to the handle the recipient admin authenticated on, and to no other.
C30_Witness ==
    /\ last.op = "update_task"
    /\ last.user \in DOMAIN users
    /\ users[last.user].role = EMPLOYEE
    /\ \E k \in DOMAIN emitted :
          /\ emitted[k].event = "notification"
          /\ emitted[k].kind = "sid"
          /\ emitted[k].room \in DOMAIN sio_sids
          /\ sio_sids[emitted[k].room] = notifications[emitted[k].ref].user_id
    /\ Cardinality({k \in DOMAIN emitted : emitted[k].event = "notification"}) = 1

\* C32: mark_notification_read by the recipient on an existing notification
\* of theirs answers 200 and leaves is_read true and the rest of the store
\* as it was, whether or not the notification was read before.
C32_MarkReadIdempotent ==
    [][(/\ Called("mark_notification_read")
        /\ last'.task_id \in DOMAIN notifications
        /\ notifications[last'.task_id].user_id = last'.user)
       => /\ last'.code = 200
          /\ notifications' = [notifications EXCEPT ![last'.task_id].is_read = TRUE]
      ]_vars

\* C34: every stored task whose status is completed has a completed_at.
C34_CompletedHasStamp ==
    \A id \in DOMAIN tasks :
        tasks[id].status = COMPLETED => tasks[id].completed_at # NoneN

\* C34 witness: of two overlapping update_task calls that ask for completed,
\* the second has just written; the task is completed and stamped with the
\* time that call read.
C34_Witness ==
    /\ last.op = "update_task.update_one"
    /\ last.req.status = COMPLETED
    /\ last.task_id \in DOMAIN tasks
    /\ tasks[last.task_id].status = COMPLETED
    /\ tasks[last.task_id].completed_at = MaxClock
    /\ \A i \in DOMAIN updating : updating[i].committed
    /\ Len(updating) = MaxOverlap

\* The suspended delete_task calls for task id whose delete_one removed it.
Winners(id) ==
    {i \in DOMAIN deleting' :
        deleting'[i].task_id = id /\ deleting'[i].pc # "delete_one"}

\* The task_deleted activities recorded for task id.
DeletedActivities(id) ==
    {k \in DOMAIN activities' :
        activities'[k].action = "task_deleted" /\ activities'[k].task_id = id}

\* The task_deleted events the step just taken emitted for task id.
DeletedEvents(id) ==
    {k \in DOMAIN emitted' :
        emitted'[k].event = "task_deleted" /\ emitted'[k].ref = id}

\* C33: of the delete_task calls for one task, however they interleave, at
\* most one gets past its delete_one and only that one answers 200; a call
\* whose delete_one finds the task gone answers 404 and records and emits
\* nothing; the task has never more than one task_deleted activity, and
\* exactly one once it is gone and every call for it has returned; the one
\* task_deleted event comes with the 200 of the call that recorded it.
C33_OneDeleteWins ==
    [][\A id \in TaskIds :
          /\ Cardinality(Winners(id)) + (IF id \in DOMAIN tasks' THEN 1 ELSE 0) <= 1
          /\ Cardinality(DeletedActivities(id)) <= 1
          /\ (/\ id \in (1..uuid') \ DOMAIN tasks'
              /\ \A i \in DOMAIN deleting' : deleting'[i].task_id # id)
             => Cardinality(DeletedActivities(id)) = 1
          /\ (/\ last'.op = "delete_task.delete_one"
              /\ last'.task_id = id
              /\ id \notin DOMAIN tasks)
             => /\ last'.code = 404
                /\ activities' = activities
                /\ emitted' = <<>>
          /\ (/\ last'.op \in {"delete_task", "delete_task.return"}
              /\ last'.task_id = id
              /\ last'.code = 200)
             => /\ id \notin DOMAIN tasks'
                /\ Cardinality(DeletedEvents(id)) = 1
                /\ \E k \in DeletedActivities(id) :
                      activities'[k].user_id = last'.user
                /\ Winners(id) = {}
          /\ DeletedEvents(id) # {}
             => /\ last'.op \in {"delete_task", "delete_task.return"}
                /\ last'.task_id = id
                /\ last'.code = 200
      ]_vars

\* C33 witness: two delete_task calls had both loaded task 1; one has
\* removed it and recorded its activity, and the other's delete_one has just
\* found nothing and answered 404.
C33_Witness ==
    /\ last.op = "delete_task.delete_one"
    /\ last.code = 404
    /\ last.task_id \notin DOMAIN tasks
    /\ \E k \in DOMAIN activities :
          activities[k] = Activity(last.user, "task_deleted", last.task_id)

\* C31: the stored messages only grow, one at a time and only in a
\* send_message step: the message names as sender an identity of db.users
\* that connected_users mapped to the sending handle when the handler looked
\* the handle up, a handle that had authenticated as that identity; the one
\* message_received event of the step refers to the message just stored, and
\* no other step emits message_received.  A send_message from a handle that
\* connected_users does not hold therefore stores and emits nothing.
C31_MessageOnlyFromMappedHandle ==
    [][/\ messages' # messages
          => /\ last'.op \in {"send_message", "send_message.insert_one"}
             /\ Len(messages') = Len(messages) + 1
             /\ SubSeq(messages', 1, Len(messages)) = messages
             /\ messages'[Len(messages')].sender_id = last'.user
             /\ last'.user \in DOMAIN users
             /\ emitted' = <<Event("message_received", "all", 0, Len(messages'))>>
             /\ last'.op = "send_message"
                => /\ user_session(connected_users, last'.user) = last'.sid
                   /\ user_session(sio_sids, last'.sid) = last'.user
             /\ last'.op = "send_message.insert_one"
                => \E i \in DOMAIN handling :
                      /\ handling[i].handler = "send_message"
                      /\ handling[i].sid = last'.sid
                      /\ handling[i].user_id = last'.user
       /\ (last'.op = "send_message.enter" /\ handling' # handling)
          => /\ user_session(connected_users, last'.user) = last'.sid
             /\ user_session(sio_sids, last'.sid) = last'.user
       /\ (\E k \in DOMAIN emitted' : emitted'[k].event = "message_received")
          => messages' # messages
      ]_vars

\* C31 witness: a handle sent a message that was stored; the identity then
\* connected again on a newer handle, and a send_message from the older one,
\* still connected, has just been dropped.
C31_Witness ==
    /\ last.op = "send_message"
    /\ last.user = NoneN
    /\ last.sid \in DOMAIN sio_sids
    /\ sio_sids[last.sid] \in DOMAIN connected_users
    /\ connected_users[sio_sids[last.sid]] # last.sid
    /\ emitted = <<>>
    /\ Len(messages) = 1
    /\ messages[1].sender_id = sio_sids[last.sid]

====
